---- MODULE Spec2Model ----
(***************************************************************************)
(* A model of the mergeable streaming statistics of rust-stats:            *)
(*   src/src/unsorted.rs   Unsorted<T>    (median, quartiles, mode, modes, *)
(*                                         cardinality over a lazily       *)
(*                                         sorted vector)                  *)
(*   src/src/frequency.rs  Frequencies<T> (exact counts in a hash map)     *)
(*   src/src/stats.rs      Variance       (Welford mean/variance and the   *)
(*                                         parallel-variance merge)        *)
(*                                                                         *)
(* Option<T> is a sequence: <<>> is None, <<x>> is Some(x); a tuple result *)
(* (q1, q2, q3) is Some as <<q1, q2, q3>>.  Vec<T> is a sequence; the code *)
(* indexes from 0, a sequence from 1.                                      *)
(*                                                                         *)
(* An f64 is an exact rational <<num, den>>, reduced, den > 0, with the    *)
(* IEEE specials NaN = <<0, 0>>, +inf = <<1, 0>> and -inf = <<-1, 0>>.     *)
(* Rounding is not modelled: on the small integers used here every median  *)
(* and quartile is exact in f64, and the Variance claims are stated for    *)
(* exact arithmetic.                                                       *)
(***************************************************************************)
EXTENDS Integers, Sequences, FiniteSets, TLC

VARIABLES
    uns,        \* Unsorted instances: [data: Seq(T), sorted: BOOLEAN]
    usamples,   \* ghost: the multiset of samples each Unsorted was given
    ures,       \* the last Unsorted call: [op, i, val] (val its return value;
                \* of a merge, the two operands as they were)
    freq,       \* Frequencies instances: the hash map, key -> count
    fsamples,   \* ghost: the multiset of samples each Frequencies was given
    fres,       \* the last Frequencies call: [op, i, val]
    var,        \* Variance instances: [size, mean, variance]
    vsamples,   \* ghost: the multiset of samples each Variance was given
    vtaint,     \* ghost: the instance descends from a merge of two empty ones
    vres        \* the last Variance call: [op, i, self, other] (of a merge, the
                \* two operands as they were)

uvars == <<uns, usamples, ures>>
fvars == <<freq, fsamples, fres>>
vvars == <<var, vsamples, vtaint, vres>>
vars == <<uns, usamples, ures, freq, fsamples, fres, var, vsamples, vtaint, vres>>

(***************************************************************************)
(* Bounds.                                                                 *)
(***************************************************************************)
\* samples of an input sequence drawn for the order statistics
MaxLen == 7
\* samples held by all Unsorted instances together
MaxHeld == 5
\* samples one extend call appends
MaxExtend == 2
\* samples counted by all Frequencies instances together
MaxCount == 4
\* samples summarised by all Variance instances together
MaxSize == 5
\* length of a slice whose quartile indices are computed
MaxSlice == 40

\* the sample values of Unsorted and Frequencies, and of Variance
Values == {1, 2, 3}
Samples == {1, 2, 4}

\* the instances of each aggregator
UInst == {1, 2}
FInst == {1, 2, 3}
\* the Frequencies tables the ranked queries are asked of
RInst == {1, 2}
VInst == {1, 2, 3}

(***************************************************************************)
(* Sequences and multisets.                                                *)
(***************************************************************************)
RECURSIVE SeqsOfLen(_, _)
SeqsOfLen(S, n) ==
    IF n = 0 THEN {<<>>}
    ELSE {Append(s, x) : s \in SeqsOfLen(S, n - 1), x \in S}

SeqsUpTo(S, n) == UNION {SeqsOfLen(S, k) : k \in 0..n}

EmptyBag(S) == [x \in S |-> 0]

RECURSIVE BagOfSeq(_, _)
BagOfSeq(S, s) ==
    IF s = <<>> THEN EmptyBag(S)
    ELSE LET b == BagOfSeq(S, Tail(s))
         IN  [b EXCEPT ![Head(s)] = @ + 1]

BagPlus(a, b) == [x \in DOMAIN a |-> a[x] + b[x]]

RECURSIVE BagSize(_)
BagSize(b) ==
    IF DOMAIN b = {} THEN 0
    ELSE LET x == CHOOSE y \in DOMAIN b : TRUE
         IN  b[x] + BagSize([y \in DOMAIN b \ {x} |-> b[y]])

RECURSIVE Repeat(_, _)
Repeat(x, n) == IF n = 0 THEN <<>> ELSE <<x>> \o Repeat(x, n - 1)

\* the samples of a bag of integers, ascending
RECURSIVE Ascending(_)
Ascending(b) ==
    IF DOMAIN b = {} THEN <<>>
    ELSE LET x == CHOOSE y \in DOMAIN b : \A z \in DOMAIN b : y <= z
         IN  Repeat(x, b[x]) \o Ascending([y \in DOMAIN b \ {x} |-> b[y]])

RECURSIVE Reverse(_)
Reverse(s) == IF s = <<>> THEN <<>> ELSE Append(Reverse(Tail(s)), Head(s))

\* the distinct values of a bag, and the count of its most frequent one
Support(b) == {x \in DOMAIN b : b[x] > 0}

BagMax(b) == CHOOSE n \in {b[x] : x \in DOMAIN b} : \A x \in DOMAIN b : b[x] <= n

\* the values of a bag that occur as often as its most frequent one
Top(b) == {x \in Support(b) : b[x] = BagMax(b)}

\* a set of integers as an ascending sequence
RECURSIVE AscendingSet(_)
AscendingSet(S) ==
    IF S = {} THEN <<>>
    ELSE LET x == CHOOSE y \in S : \A z \in S : y <= z
         IN  <<x>> \o AscendingSet(S \ {x})

(***************************************************************************)
(* f64 arithmetic (exact, with NaN and the infinities).                    *)
(***************************************************************************)
Abs(n) == IF n < 0 THEN -n ELSE n

Sign(n) == IF n > 0 THEN 1 ELSE IF n < 0 THEN -1 ELSE 0

RECURSIVE Gcd(_, _)
Gcd(a, b) == IF b = 0 THEN a ELSE Gcd(b, a % b)

NaN == <<0, 0>>

is_nan(a) == a = NaN

is_inf(a) == a[2] = 0 /\ a[1] # 0

\* the f64 n/d of two integers
F64(n, d) ==
    IF d = 0 THEN <<Sign(n), 0>>
    ELSE LET g == Gcd(Abs(n), Abs(d))
         IN  <<(Sign(d) * n) \div g, Abs(d) \div g>>

to_f64(n) == <<n, 1>>

f64_neg(a) == <<-a[1], a[2]>>

f64_add(a, b) ==
    IF is_nan(a) \/ is_nan(b) THEN NaN
    ELSE IF is_inf(a) /\ is_inf(b) THEN (IF a = b THEN a ELSE NaN)
    ELSE IF is_inf(a) THEN a
    ELSE IF is_inf(b) THEN b
    ELSE F64(a[1] * b[2] + b[1] * a[2], a[2] * b[2])

f64_sub(a, b) == f64_add(a, f64_neg(b))

f64_mul(a, b) ==
    IF is_nan(a) \/ is_nan(b) THEN NaN
    ELSE IF is_inf(a) \/ is_inf(b) THEN <<Sign(a[1]) * Sign(b[1]), 0>>
    ELSE F64(a[1] * b[1], a[2] * b[2])

f64_div(a, b) ==
    IF is_nan(a) \/ is_nan(b) THEN NaN
    ELSE IF is_inf(b) THEN (IF is_inf(a) THEN NaN ELSE to_f64(0))
    ELSE IF is_inf(a) THEN <<a[1] * (IF b[1] < 0 THEN -1 ELSE 1), 0>>
    ELSE IF b[1] = 0 THEN <<Sign(a[1]), 0>>
    ELSE F64(a[1] * b[2], a[2] * b[1])

(***************************************************************************)
(* unsorted.rs: the functions on a sorted slice.                           *)
(***************************************************************************)
\* data[i] and data.get_unchecked(i): the element at 0-based index i
At(data, i) == data[i + 1]

RECURSIVE InsertSorted(_, _)
InsertSorted(s, x) ==
    IF s = <<>> THEN <<x>>
    ELSE IF x <= Head(s) THEN <<x>> \o s
    ELSE <<Head(s)>> \o InsertSorted(Tail(s), x)

\* Vec::sort_unstable on a totally ordered T
RECURSIVE sort_unstable(_)
sort_unstable(s) ==
    IF s = <<>> THEN <<>> ELSE InsertSorted(sort_unstable(Tail(s)), Head(s))

\* the average (v1 + v2) / 2.0 the median and the quartiles take
Avg(v1, v2) == f64_div(f64_add(v1, v2), to_f64(2))

\* median_on_sorted taking the upper middle element alone when len is even
median_on_sorted_upper(data) ==
    LET len == Len(data) IN
    IF len = 0 THEN <<>>
    ELSE <<to_f64(At(data, len \div 2))>>

median_on_sorted(data) ==
    LET len == Len(data) IN
    IF len = 0 THEN <<>>
    ELSE IF len = 1 THEN <<to_f64(At(data, 0))>>
    ELSE IF len % 2 = 0
         THEN <<Avg(to_f64(At(data, (len \div 2) - 1)), to_f64(At(data, len \div 2)))>>
    ELSE <<to_f64(At(data, len \div 2))>>

\* quartiles_on_sorted with the len % 4 = 1 branch reading q3 where the
\* len % 4 = 0 branch reads it
quartiles_on_sorted_q3(data) ==
    LET len == Len(data)
        r == len % 4
        k == (len - r) \div 4
        x(i) == to_f64(At(data, i))
    IN
    IF len <= 2 THEN <<>>
    ELSE IF len = 3 THEN <<x(0), x(1), x(2)>>
    ELSE IF r = 0 THEN
        <<Avg(x(k - 1), x(k)), Avg(x(2 * k - 1), x(2 * k)), Avg(x(3 * k - 1), x(3 * k))>>
    ELSE IF r = 1 THEN
        <<Avg(x(k - 1), x(k)), x(2 * k), Avg(x(3 * k - 1), x(3 * k))>>
    ELSE IF r = 2 THEN
        <<x(k), Avg(x(2 * k), x(2 * k + 1)), x(3 * k + 1)>>
    ELSE <<x(k), x(2 * k + 1), x(3 * k + 2)>>

quartiles_on_sorted(data) ==
    LET len == Len(data)
        r == len % 4
        k == (len - r) \div 4
        x(i) == to_f64(At(data, i))
    IN
    IF len <= 2 THEN <<>>
    ELSE IF len = 3 THEN <<x(0), x(1), x(2)>>
    ELSE IF r = 0 THEN
        <<Avg(x(k - 1), x(k)), Avg(x(2 * k - 1), x(2 * k)), Avg(x(3 * k - 1), x(3 * k))>>
    ELSE IF r = 1 THEN
        <<Avg(x(k - 1), x(k)), x(2 * k), Avg(x(3 * k), x(3 * k + 1))>>
    ELSE IF r = 2 THEN
        <<x(k), Avg(x(2 * k), x(2 * k + 1)), x(3 * k + 1)>>
    ELSE <<x(k), x(2 * k + 1), x(3 * k + 2)>>

\* quartiles_reads with the len % 4 = 0 branch reading q3 where the
\* len % 4 = 1 branch reads it
quartiles_reads_q3(len) ==
    LET r == len % 4
        k == (len - r) \div 4
    IN
    IF len <= 2 THEN <<>>
    ELSE IF len = 3 THEN <<<<0>>, <<1>>, <<2>>>>
    ELSE IF r = 0 THEN <<<<k - 1, k>>, <<2 * k - 1, 2 * k>>, <<3 * k, 3 * k + 1>>>>
    ELSE IF r = 1 THEN <<<<k - 1, k>>, <<2 * k>>, <<3 * k, 3 * k + 1>>>>
    ELSE IF r = 2 THEN <<<<k>>, <<2 * k, 2 * k + 1>>, <<3 * k + 1>>>>
    ELSE <<<<k>>, <<2 * k + 1>>, <<3 * k + 2>>>>

\* the indices quartiles_on_sorted passes to get_unchecked on a slice of len
\* elements, as computed (k - 1 below 0 is an underflow of usize): those
\* read for q1, for q2 and for q3
quartiles_reads(len) ==
    LET r == len % 4
        k == (len - r) \div 4
    IN
    IF len <= 2 THEN <<>>
    ELSE IF len = 3 THEN <<<<0>>, <<1>>, <<2>>>>
    ELSE IF r = 0 THEN <<<<k - 1, k>>, <<2 * k - 1, 2 * k>>, <<3 * k - 1, 3 * k>>>>
    ELSE IF r = 1 THEN <<<<k - 1, k>>, <<2 * k>>, <<3 * k, 3 * k + 1>>>>
    ELSE IF r = 2 THEN <<<<k>>, <<2 * k, 2 * k + 1>>, <<3 * k + 1>>>>
    ELSE <<<<k>>, <<2 * k + 1>>, <<3 * k + 2>>>>

\* mode_step without the mode_count += 1 of its first branch
mode_step_uncounted(st, x) ==
    LET s1 == IF st.mode = <<x>> THEN st
              ELSE IF st.next = <<x>> THEN [st EXCEPT !.next_count = @ + 1]
              ELSE [st EXCEPT !.next = <<x>>, !.next_count = 0]
    IN  IF s1.next_count > s1.mode_count
        THEN [mode |-> s1.next, mode_count |-> s1.next_count,
              next |-> <<>>, next_count |-> 0]
        ELSE IF s1.next_count = s1.mode_count
        THEN [s1 EXCEPT !.mode = <<>>, !.mode_count = 0]
        ELSE s1

\* one iteration of mode_on_sorted's loop over the state (mode, next, counts)
mode_step(st, x) ==
    LET s1 == IF st.mode = <<x>> THEN [st EXCEPT !.mode_count = @ + 1]
              ELSE IF st.next = <<x>> THEN [st EXCEPT !.next_count = @ + 1]
              ELSE [st EXCEPT !.next = <<x>>, !.next_count = 0]
    IN  IF s1.next_count > s1.mode_count
        THEN [mode |-> s1.next, mode_count |-> s1.next_count,
              next |-> <<>>, next_count |-> 0]
        ELSE IF s1.next_count = s1.mode_count
        THEN [s1 EXCEPT !.mode = <<>>, !.mode_count = 0]
        ELSE s1

RECURSIVE mode_loop(_, _)
mode_loop(st, it) ==
    IF it = <<>> THEN st ELSE mode_loop(mode_step(st, Head(it)), Tail(it))

mode_on_sorted(it) ==
    mode_loop([mode |-> <<>>, next |-> <<>>, mode_count |-> 0, next_count |-> 0],
              it).mode

\* one iteration of modes_on_sorted's loop over (highest_mode, modes, values, count)
modes_step(st, x) ==
    IF st.values = <<>>
    THEN [st EXCEPT !.values = <<x>>, !.modes = <<1>>]
    ELSE IF x = At(st.values, st.count)
    THEN LET m == At(st.modes, st.count) + 1
         IN  [st EXCEPT !.modes[st.count + 1] = m,
                        !.highest_mode = IF @ < m THEN m ELSE @]
    ELSE [st EXCEPT !.values = Append(@, x), !.modes = Append(@, 1),
                    !.count = @ + 1]

RECURSIVE modes_loop(_, _)
modes_loop(st, it) ==
    IF it = <<>> THEN st ELSE modes_loop(modes_step(st, Head(it)), Tail(it))

\* modes_filter without the highest_mode > 1 condition
RECURSIVE modes_filter_any(_, _, _)
modes_filter_any(modes, values, highest_mode) ==
    IF modes = <<>> THEN <<>>
    ELSE (IF Head(modes) = highest_mode THEN <<Head(values)>> ELSE <<>>)
         \o modes_filter_any(Tail(modes), Tail(values), highest_mode)

RECURSIVE modes_filter(_, _, _)
modes_filter(modes, values, highest_mode) ==
    IF modes = <<>> THEN <<>>
    ELSE (IF Head(modes) = highest_mode /\ highest_mode > 1
          THEN <<Head(values)>> ELSE <<>>)
         \o modes_filter(Tail(modes), Tail(values), highest_mode)

modes_on_sorted(it) ==
    LET st == modes_loop([highest_mode |-> 1, modes |-> <<>>, values |-> <<>>,
                          count |-> 0], it)
    IN  modes_filter(st.modes, st.values, st.highest_mode)

\* Vec::dedup: every run of equal neighbours keeps its first element
RECURSIVE dedup(_)
dedup(s) ==
    IF Len(s) <= 1 THEN s
    ELSE IF s[1] = s[2] THEN dedup(Tail(s))
    ELSE <<s[1]>> \o dedup(Tail(s))

(***************************************************************************)
(* unsorted.rs: Unsorted<T>.  A method that takes &mut self and returns a  *)
(* value is a record [self, ret].                                          *)
(***************************************************************************)
Unsorted_default == [data |-> <<>>, sorted |-> TRUE]

Unsorted_dirtied(u) == [u EXCEPT !.sorted = FALSE]

Unsorted_add(u, v) ==
    LET d == Unsorted_dirtied(u) IN [d EXCEPT !.data = Append(@, v)]

Unsorted_extend(u, it) ==
    LET d == Unsorted_dirtied(u) IN [d EXCEPT !.data = @ \o it]

\* merge without the call of dirtied
Unsorted_merge_clean(u, v) == [u EXCEPT !.data = @ \o v.data]

Unsorted_merge(u, v) ==
    LET d == Unsorted_dirtied(u) IN [d EXCEPT !.data = @ \o v.data]

\* sorts when the flag is false; the flag itself is left as it is
Unsorted_sort(u) ==
    IF ~u.sorted THEN [u EXCEPT !.data = sort_unstable(@)] ELSE u

Unsorted_from_iter(it) == Unsorted_extend(Unsorted_default, it)

Unsorted_len(u) == Len(u.data)

\* cardinality with dedup on self.data in place of its clone
Unsorted_cardinality_in_place(u) ==
    LET s == Unsorted_sort(u)
    IN  [self |-> [s EXCEPT !.data = dedup(@)], ret |-> <<Len(dedup(s.data))>>]

Unsorted_cardinality(u) ==
    LET s == Unsorted_sort(u) IN [self |-> s, ret |-> <<Len(dedup(s.data))>>]

Unsorted_mode(u) ==
    LET s == Unsorted_sort(u) IN [self |-> s, ret |-> mode_on_sorted(s.data)]

Unsorted_modes(u) ==
    LET s == Unsorted_sort(u) IN [self |-> s, ret |-> modes_on_sorted(s.data)]

Unsorted_median(u) ==
    LET s == Unsorted_sort(u) IN [self |-> s, ret |-> median_on_sorted(s.data)]

Unsorted_quartiles(u) ==
    LET s == Unsorted_sort(u) IN [self |-> s, ret |-> quartiles_on_sorted(s.data)]

(***************************************************************************)
(* The Unsorted state machine: two instances, every public operation.      *)
(***************************************************************************)
UHeld == Len(uns[1].data) + Len(uns[2].data)

UIdle == [op |-> "none", i |-> 0, val |-> <<>>]

InitU ==
    /\ uns = [i \in UInst |-> Unsorted_default]
    /\ usamples = [i \in UInst |-> EmptyBag(Values)]
    /\ ures = UIdle

\* instance 1 collected from any input sequence (from_iter), instance 2 new
InitQ ==
    /\ \E it \in SeqsUpTo(Values, MaxLen) :
        /\ uns = [i \in UInst |-> IF i = 1 THEN Unsorted_from_iter(it)
                                          ELSE Unsorted_default]
        /\ usamples = [i \in UInst |-> IF i = 1 THEN BagOfSeq(Values, it)
                                               ELSE EmptyBag(Values)]
    /\ ures = UIdle

UAdd(i, v) ==
    /\ UNCHANGED <<fvars, vvars>>
    /\ UHeld < MaxHeld
    /\ uns' = [uns EXCEPT ![i] = Unsorted_add(@, v)]
    /\ usamples' = [usamples EXCEPT ![i][v] = @ + 1]
    /\ ures' = [op |-> "add", i |-> i, val |-> <<>>]

UExtend(i, it) ==
    /\ UNCHANGED <<fvars, vvars>>
    /\ UHeld + Len(it) <= MaxHeld
    /\ uns' = [uns EXCEPT ![i] = Unsorted_extend(@, it)]
    /\ usamples' = [usamples EXCEPT ![i] = BagPlus(@, BagOfSeq(Values, it))]
    /\ ures' = [op |-> "extend", i |-> i, val |-> <<>>]

\* self.merge(v) consumes v: its slot holds a new instance afterwards
UMerge(i, j) ==
    /\ UNCHANGED <<fvars, vvars>>
    /\ i # j
    /\ uns' = [uns EXCEPT ![i] = Unsorted_merge(uns[i], uns[j]),
                          ![j] = Unsorted_default]
    /\ usamples' = [usamples EXCEPT ![i] = BagPlus(usamples[i], usamples[j]),
                                    ![j] = EmptyBag(Values)]
    /\ ures' = [op |-> "merge", i |-> i, val |-> <<uns[i], uns[j]>>]

UCall(i, op, r) ==
    /\ uns' = [uns EXCEPT ![i] = r.self]
    /\ ures' = [op |-> op, i |-> i, val |-> r.ret]
    /\ UNCHANGED <<usamples, fvars, vvars>>

UMedian(i) == UCall(i, "median", Unsorted_median(uns[i]))

UQuartiles(i) == UCall(i, "quartiles", Unsorted_quartiles(uns[i]))

UMode(i) == UCall(i, "mode", Unsorted_mode(uns[i]))

UModes(i) == UCall(i, "modes", Unsorted_modes(uns[i]))

UCardinality(i) == UCall(i, "cardinality", Unsorted_cardinality(uns[i]))

NextQ ==
    \/ \E i \in UInst : UMedian(i)
    \/ \E i \in UInst : UQuartiles(i)
    \/ \E i \in UInst : UMode(i)
    \/ \E i \in UInst : UModes(i)
    \/ \E i \in UInst : UCardinality(i)

NextU ==
    \/ \E i \in UInst, v \in Values : UAdd(i, v)
    \/ \E i \in UInst, it \in SeqsUpTo(Values, MaxExtend) : UExtend(i, it)
    \/ \E i, j \in UInst : UMerge(i, j)
    \/ NextQ

(***************************************************************************)
(* frequency.rs: Frequencies<T>.  The hash map is a function from its keys *)
(* to their counts.  The order in which a hash map yields its entries, and *)
(* the order sort_unstable_by leaves entries of equal count in, are not    *)
(* fixed by the code: every order is possible.                             *)
(***************************************************************************)
\* every order a finite set can be iterated in
RECURSIVE Orders(_)
Orders(S) ==
    IF S = {} THEN {<<>>}
    ELSE UNION {{<<x>> \o p : p \in Orders(S \ {x})} : x \in S}

Frequencies_default == [k \in {} |-> 0]

Frequencies_add(f, v) ==
    IF v \in DOMAIN f THEN [f EXCEPT ![v] = @ + 1] ELSE f @@ (v :> 1)

Frequencies_count(f, v) == IF v \in DOMAIN f THEN f[v] ELSE 0

Frequencies_len(f) == Cardinality(DOMAIN f)

RECURSIVE Frequencies_extend(_, _)
Frequencies_extend(f, it) ==
    IF it = <<>> THEN f
    ELSE Frequencies_extend(Frequencies_add(f, Head(it)), Tail(it))

Frequencies_from_iter(it) == Frequencies_extend(Frequencies_default, it)

\* merge_entry storing the other table's count over an occupied entry
merge_entry_overwrite(f, k, v2) ==
    IF k \in DOMAIN f THEN [f EXCEPT ![k] = v2] ELSE f @@ (k :> v2)

\* one iteration of merge's loop: the entry (k, v2) of the other table
merge_entry(f, k, v2) ==
    IF k \in DOMAIN f THEN [f EXCEPT ![k] = @ + v2] ELSE f @@ (k :> v2)

\* self.merge(v), v.data yielding its entries in the order `keys`
RECURSIVE Frequencies_merge(_, _, _)
Frequencies_merge(f, v, keys) ==
    IF keys = <<>> THEN f
    ELSE Frequencies_merge(merge_entry(f, Head(keys), v[Head(keys)]), v, Tail(keys))

\* collect_counts with total_count = v in place of total_count += v
RECURSIVE collect_counts_assign(_, _)
collect_counts_assign(f, keys) ==
    IF keys = <<>> THEN [counts |-> <<>>, total_count |-> 0]
    ELSE LET k == keys[Len(keys)]
             r == collect_counts_assign(f, SubSeq(keys, 1, Len(keys) - 1))
         IN  [counts |-> Append(r.counts, <<k, f[k]>>),
              total_count |-> f[k]]

\* the (key, count) pairs and their running total, collected in the order `keys`
RECURSIVE collect_counts(_, _)
collect_counts(f, keys) ==
    IF keys = <<>> THEN [counts |-> <<>>, total_count |-> 0]
    ELSE LET k == keys[Len(keys)]
             r == collect_counts(f, SubSeq(keys, 1, Len(keys) - 1))
         IN  [counts |-> Append(r.counts, <<k, f[k]>>),
              total_count |-> r.total_count + f[k]]

\* the results sort_unstable_by(|(_, c1), (_, c2)| c2.cmp(&c1)) can leave
SortedByCountDesc(counts) ==
    {[i \in 1..Len(counts) |-> counts[p[i]]] : p \in
        {q \in Orders(1..Len(counts)) :
            \A i \in 1..(Len(counts) - 1) : counts[q[i]][2] >= counts[q[i + 1]][2]}}

\* every (counts, total_count) most_frequent can return
Frequencies_most_frequent(f) ==
    UNION {{[counts |-> c, total_count |-> collect_counts(f, keys).total_count] :
                c \in SortedByCountDesc(collect_counts(f, keys).counts)} :
           keys \in Orders(DOMAIN f)}

\* mode_of_counts without the comparison of the two highest counts
mode_of_counts_first(counts) ==
    IF counts = <<>> THEN <<>> ELSE <<counts[1][1]>>

\* mode's decision on the counts most_frequent returned
mode_of_counts(counts) ==
    IF counts = <<>> THEN <<>>
    ELSE IF Len(counts) >= 2 /\ counts[1][2] = counts[2][2] THEN <<>>
    ELSE <<counts[1][1]>>

\* every value mode can return
Frequencies_mode(f) ==
    {mode_of_counts(mf.counts) : mf \in Frequencies_most_frequent(f)}

\* the results sort_unstable_by(|(_, c1), (_, c2)| c1.cmp(&c2)) can leave
SortedByCountAsc(counts) ==
    {[i \in 1..Len(counts) |-> counts[p[i]]] : p \in
        {q \in Orders(1..Len(counts)) :
            \A i \in 1..(Len(counts) - 1) : counts[q[i]][2] <= counts[q[i + 1]][2]}}

\* every (counts, total_count) least_frequent can return
Frequencies_least_frequent(f) ==
    UNION {{[counts |-> c, total_count |-> collect_counts(f, keys).total_count] :
                c \in SortedByCountAsc(collect_counts(f, keys).counts)} :
           keys \in Orders(DOMAIN f)}

Frequencies_cardinality(f) == Frequencies_len(f)

Frequencies_is_empty(f) == DOMAIN f = {}

\* every sequence of keys the iterator unique_values() can yield
Frequencies_unique_values(f) == Orders(DOMAIN f)

\* c1.cmp(&c2) of two integers: -1 Less, 0 Equal, 1 Greater
cmp(a, b) == IF a < b THEN 0 - 1 ELSE IF a = b THEN 0 ELSE 1

\* par_frequent's comparators without the comparison of the values
par_cmp_counts(least, e1, e2) ==
    IF least THEN cmp(e1[2], e2[2]) ELSE cmp(e2[2], e1[2])

\* par_frequent's comparator of the entries (v1, c1) and (v2, c2)
par_cmp(least, e1, e2) ==
    IF least
    THEN LET c == cmp(e1[2], e2[2]) IN IF c = 0 THEN cmp(e1[1], e2[1]) ELSE c
    ELSE LET c == cmp(e2[2], e1[2]) IN IF c = 0 THEN cmp(e1[1], e2[1]) ELSE c

\* the results par_sort_unstable_by can leave under par_frequent's comparator
ParSorted(counts, least) ==
    {[i \in 1..Len(counts) |-> counts[p[i]]] : p \in
        {q \in Orders(1..Len(counts)) :
            \A i \in 1..(Len(counts) - 1) :
                par_cmp(least, counts[q[i]], counts[q[i + 1]]) <= 0}}

\* every (counts, total_count) par_frequent(least) can return
Frequencies_par_frequent(f, least) ==
    UNION {{[counts |-> c, total_count |-> collect_counts(f, keys).total_count] :
                c \in ParSorted(collect_counts(f, keys).counts, least)} :
           keys \in Orders(DOMAIN f)}

(***************************************************************************)
(* The Frequencies state machine.                                          *)
(***************************************************************************)
RECURSIVE FTotal(_)
FTotal(S) ==
    IF S = {} THEN 0
    ELSE LET i == CHOOSE j \in S : TRUE
         IN  BagSize(fsamples[i]) + FTotal(S \ {i})

InitF ==
    /\ freq = [i \in FInst |-> Frequencies_default]
    /\ fsamples = [i \in FInst |-> EmptyBag(Values)]
    /\ fres = [op |-> "none", i |-> 0, val |-> <<>>]

FAdd(i, v) ==
    /\ UNCHANGED <<uvars, vvars>>
    /\ FTotal(FInst) < MaxCount
    /\ freq' = [freq EXCEPT ![i] = Frequencies_add(@, v)]
    /\ fsamples' = [fsamples EXCEPT ![i][v] = @ + 1]
    /\ fres' = [op |-> "add", i |-> i, val |-> <<>>]

FExtend(i, it) ==
    /\ UNCHANGED <<uvars, vvars>>
    /\ FTotal(FInst) + Len(it) <= MaxCount
    /\ freq' = [freq EXCEPT ![i] = Frequencies_extend(@, it)]
    /\ fsamples' = [fsamples EXCEPT ![i] = BagPlus(@, BagOfSeq(Values, it))]
    /\ fres' = [op |-> "extend", i |-> i, val |-> <<>>]

\* self.merge(v) consumes v: its slot holds a new table afterwards
FMerge(i, j) ==
    /\ UNCHANGED <<uvars, vvars>>
    /\ i # j
    /\ \E keys \in Orders(DOMAIN freq[j]) :
        freq' = [freq EXCEPT ![i] = Frequencies_merge(freq[i], freq[j], keys),
                             ![j] = Frequencies_default]
    /\ fsamples' = [fsamples EXCEPT ![i] = BagPlus(fsamples[i], fsamples[j]),
                                    ![j] = EmptyBag(Values)]
    /\ fres' = [op |-> "merge", i |-> i, val |-> <<freq[i], freq[j]>>]

FMode(i) ==
    /\ \E r \in Frequencies_mode(freq[i]) :
        fres' = [op |-> "mode", i |-> i, val |-> r]
    /\ UNCHANGED <<freq, fsamples, uvars, vvars>>

\* a call of a &self method of table i that returned r
FCall(i, op, r) ==
    /\ fres' = [op |-> op, i |-> i, val |-> r]
    /\ UNCHANGED <<freq, fsamples, uvars, vvars>>

FMostFrequent(i) ==
    \E r \in Frequencies_most_frequent(freq[i]) : FCall(i, "most_frequent", r)

FLeastFrequent(i) ==
    \E r \in Frequencies_least_frequent(freq[i]) : FCall(i, "least_frequent", r)

FParFrequent(i, least) ==
    \E r \in Frequencies_par_frequent(freq[i], least) :
        FCall(i, IF least THEN "par_frequent(true)" ELSE "par_frequent(false)", r)

\* count(&v): the value asked for is kept with the answer
FCount(i, v) ==
    \E r \in {Frequencies_count(freq[i], v)} : FCall(i, "count", <<v, r>>)

FCardinality(i) ==
    \E r \in {Frequencies_cardinality(freq[i])} : FCall(i, "cardinality", r)

FUniqueValues(i) ==
    \E r \in Frequencies_unique_values(freq[i]) : FCall(i, "unique_values", r)

NextF ==
    \/ \E i \in FInst, v \in Values : FAdd(i, v)
    \/ \E i \in FInst, it \in SeqsUpTo(Values, MaxExtend) : FExtend(i, it)
    \/ \E i, j \in FInst : FMerge(i, j)
    \/ \E i \in FInst : FMode(i)

\* two of the tables, built by add/extend/merge and asked every other query
NextRanked ==
    \/ \E i \in RInst, v \in Values : FAdd(i, v)
    \/ \E i \in RInst, it \in SeqsUpTo(Values, MaxExtend) : FExtend(i, it)
    \/ \E i, j \in RInst : FMerge(i, j)
    \/ \E i \in RInst : FMostFrequent(i)
    \/ \E i \in RInst : FLeastFrequent(i)
    \/ \E i \in RInst, least \in BOOLEAN : FParFrequent(i, least)
    \/ \E i \in RInst, v \in Values : FCount(i, v)
    \/ \E i \in RInst : FCardinality(i)
    \/ \E i \in RInst : FUniqueValues(i)

(***************************************************************************)
(* stats.rs: Variance.                                                     *)
(***************************************************************************)
Variance_default == [size |-> 0, mean |-> to_f64(0), variance |-> to_f64(0)]

Variance_add(s, sample) ==
    LET x == to_f64(sample)
        oldmean == s.mean
        prevq == f64_mul(s.variance, to_f64(s.size))
        size == s.size + 1
        mean == f64_add(s.mean, f64_div(f64_sub(x, oldmean), to_f64(size)))
    IN  [size |-> size,
         mean |-> mean,
         variance |-> f64_div(f64_add(prevq, f64_mul(f64_sub(x, oldmean),
                                                     f64_sub(x, mean))),
                              to_f64(size))]

\* merge without the term of the squared difference of the means
Variance_merge_within(s, v) ==
    LET s1 == to_f64(s.size)
        s2 == to_f64(v.size)
        mean == f64_div(f64_add(f64_mul(s1, s.mean), f64_mul(s2, v.mean)),
                        f64_add(s1, s2))
        variance ==
            f64_div(f64_add(f64_mul(s1, s.variance), f64_mul(s2, v.variance)),
                    f64_add(s1, s2))
    IN  [size |-> s.size + v.size, mean |-> mean, variance |-> variance]

Variance_merge(s, v) ==
    LET s1 == to_f64(s.size)
        s2 == to_f64(v.size)
        meandiffsq == f64_mul(f64_sub(s.mean, v.mean), f64_sub(s.mean, v.mean))
        mean == f64_div(f64_add(f64_mul(s1, s.mean), f64_mul(s2, v.mean)),
                        f64_add(s1, s2))
        variance ==
            f64_add(f64_div(f64_add(f64_mul(s1, s.variance), f64_mul(s2, v.variance)),
                            f64_add(s1, s2)),
                    f64_div(f64_mul(f64_mul(s1, s2), meandiffsq),
                            f64_mul(f64_add(s1, s2), f64_add(s1, s2))))
    IN  [size |-> s.size + v.size, mean |-> mean, variance |-> variance]

RECURSIVE Variance_extend(_, _)
Variance_extend(s, it) ==
    IF it = <<>> THEN s
    ELSE Variance_extend(Variance_add(s, Head(it)), Tail(it))

Variance_from_slice(samples) == Variance_extend(Variance_default, samples)

Variance_clear(s) == [size |-> 0, mean |-> to_f64(0), variance |-> to_f64(0)]

(***************************************************************************)
(* The Variance state machine.  merge borrows its argument, which stays.   *)
(***************************************************************************)
RECURSIVE VTotal(_)
VTotal(S) ==
    IF S = {} THEN 0
    ELSE LET i == CHOOSE j \in S : TRUE
         IN  var[i].size + VTotal(S \ {i})

VIdle == [op |-> "none", i |-> 0, self |-> Variance_default, other |-> Variance_default]

InitV ==
    /\ var = [i \in VInst |-> Variance_default]
    /\ vsamples = [i \in VInst |-> EmptyBag(Samples)]
    /\ vtaint = [i \in VInst |-> FALSE]
    /\ vres = VIdle

VAdd(i, x) ==
    /\ UNCHANGED <<uvars, fvars>>
    /\ VTotal(VInst) < MaxSize
    /\ var' = [var EXCEPT ![i] = Variance_add(@, x)]
    /\ vsamples' = [vsamples EXCEPT ![i][x] = @ + 1]
    /\ vres' = [VIdle EXCEPT !.op = "add", !.i = i]
    /\ UNCHANGED vtaint

VMerge(i, j) ==
    /\ UNCHANGED <<uvars, fvars>>
    /\ i # j
    /\ VTotal(VInst) + var[j].size <= MaxSize
    /\ var' = [var EXCEPT ![i] = Variance_merge(var[i], var[j])]
    /\ vsamples' = [vsamples EXCEPT ![i] = BagPlus(vsamples[i], vsamples[j])]
    /\ vtaint' = [vtaint EXCEPT ![i] = @ \/ vtaint[j]
                                         \/ (var[i].size = 0 /\ var[j].size = 0)]
    /\ vres' = [op |-> "merge", i |-> i, self |-> var[i], other |-> var[j]]

VClear(i) ==
    /\ UNCHANGED <<uvars, fvars>>
    /\ var' = [var EXCEPT ![i] = Variance_clear(@)]
    /\ vsamples' = [vsamples EXCEPT ![i] = EmptyBag(Samples)]
    /\ vtaint' = [vtaint EXCEPT ![i] = FALSE]
    /\ vres' = [VIdle EXCEPT !.op = "clear", !.i = i]

NextV ==
    \/ \E i \in VInst, x \in Samples : VAdd(i, x)
    \/ \E i, j \in VInst : VMerge(i, j)
    \/ \E i \in VInst : VClear(i)

(***************************************************************************)
(* Specifications: one per aggregator; the other two stay as created.      *)
(***************************************************************************)
Init == InitU /\ InitF /\ InitV

InitOrder == InitQ /\ InitF /\ InitV

SpecOrder == InitOrder /\ [][NextQ]_vars

SpecUnsorted == Init /\ [][NextU]_vars

SpecFrequencies == Init /\ [][NextF]_vars

SpecRanked == Init /\ [][NextRanked]_vars

SpecVariance == Init /\ [][NextV]_vars

(***************************************************************************)
(* Order statistics stated on the multiset of samples, for reference.      *)
(***************************************************************************)
\* the multiset the last Unsorted call was made on, and its samples ascending
UBag == usamples[ures.i]

USorted == Ascending(UBag)

\* (a + b) / 2 of two integers
Mid(a, b) == F64(a + b, 2)

\* the median of a non-empty ascending sequence x
MedianOf(x) ==
    LET n == Len(x) IN
    IF n % 2 = 1 THEN F64(x[(n - 1) \div 2 + 1], 1)
    ELSE Mid(x[n \div 2], x[n \div 2 + 1])

\* the n mod 4 table of quartile positions, on x[0..n-1] ascending, n >= 3
QuartileTable(x) ==
    LET n == Len(x)
        r == n % 4
        k == (n - r) \div 4
        e(i) == x[i + 1]
    IN  CASE r = 0 -> <<Mid(e(k - 1), e(k)), Mid(e(2 * k - 1), e(2 * k)),
                        Mid(e(3 * k - 1), e(3 * k))>>
          [] r = 1 -> <<Mid(e(k - 1), e(k)), F64(e(2 * k), 1),
                        Mid(e(3 * k), e(3 * k + 1))>>
          [] r = 2 -> <<F64(e(k), 1), Mid(e(2 * k), e(2 * k + 1)),
                        F64(e(3 * k + 1), 1)>>
          [] r = 3 -> <<F64(e(k), 1), F64(e(2 * k + 1), 1), F64(e(3 * k + 2), 1)>>

\* the medians of the floor(n/2) smallest, of all, and of the floor(n/2) largest
QuartileHalves(x) ==
    LET n == Len(x)
        h == n \div 2
    IN  <<MedianOf(SubSeq(x, 1, h)), MedianOf(x), MedianOf(SubSeq(x, n - h + 1, n))>>

(***************************************************************************)
(* C1 (the claim as stated; the code violates it):                         *)
(* mode() returns nothing whenever two or more distinct values share the   *)
(* highest occurrence count, whatever sorts after the tied values.         *)
(***************************************************************************)
C1_ModeTieIsNone ==
    (ures.op = "mode" /\ Cardinality(Top(UBag)) >= 2) => ures.val = <<>>

(***************************************************************************)
(* C2 (the claim as stated; fails on a single sample):                     *)
(* on a non-empty multiset in which one value occurs strictly more often   *)
(* than every other distinct value, mode() returns that value.             *)
(***************************************************************************)
C2_ModeUniqueTop ==
    (ures.op = "mode" /\ Cardinality(Top(UBag)) = 1)
        => ures.val = <<CHOOSE x \in Top(UBag) : TRUE>>

(***************************************************************************)
(* C2 (amended): on a multiset of two or more samples in which one value   *)
(* occurs strictly more often than every other distinct value, mode()      *)
(* returns that value; on a single sample it returns nothing.              *)
(***************************************************************************)
C2_ModeUniqueTopRepeated ==
    (ures.op = "mode" /\ Cardinality(Top(UBag)) = 1)
        => ures.val = IF BagSize(UBag) >= 2 THEN <<CHOOSE x \in Top(UBag) : TRUE>>
                      ELSE <<>>

\* mode() answered with the strict winner of three distinct values
C2_Witness ==
    /\ ures.op = "mode"
    /\ Cardinality(Support(UBag)) = 3
    /\ Cardinality(Top(UBag)) = 1
    /\ ures.val = <<CHOOSE x \in Top(UBag) : TRUE>>

(***************************************************************************)
(* C7: quartiles() is absent for n < 3, and for n >= 3 it is the n mod 4   *)
(* table's (Q1, Q2, Q3) over the sorted samples, which is the median of    *)
(* the floor(n/2) smallest, of all, and of the floor(n/2) largest samples. *)
(***************************************************************************)
C7_Quartiles ==
    ures.op = "quartiles" =>
        IF BagSize(UBag) < 3 THEN ures.val = <<>>
        ELSE /\ ures.val = QuartileTable(USorted)
             /\ ures.val = QuartileHalves(USorted)

\* quartiles() of the longest input, three different quartiles
C7_Witness ==
    /\ ures.op = "quartiles"
    /\ BagSize(UBag) = MaxLen
    /\ Len(ures.val) = 3
    /\ ures.val[1] # ures.val[2]
    /\ ures.val[2] # ures.val[3]

(***************************************************************************)
(* C14: for a slice of n >= 3 elements (n = 3, and every n mod 4 with      *)
(* k = (n - n mod 4) / 4), every index quartiles_on_sorted passes to       *)
(* get_unchecked lies in 0..n-1 and none is computed below 0; the          *)
(* quartiles returned are those of the elements at these indices.          *)
(***************************************************************************)
\* all the indices of the groups of a quartiles_reads
ReadSet(reads) == UNION {{g[n] : n \in 1..Len(g)} : g \in {reads[q] : q \in 1..Len(reads)}}

\* the quartile of the one or two elements of data at the indices g
QuartileAt(data, g) ==
    IF Len(g) = 1 THEN F64(data[g[1] + 1], 1)
    ELSE Mid(data[g[1] + 1], data[g[2] + 1])

C14_ReadsInRange ==
    /\ \A n \in 3..MaxSlice :
        /\ Len(quartiles_reads(n)) = 3
        /\ ReadSet(quartiles_reads(n)) \subseteq 0..(n - 1)
    /\ (ures.op = "quartiles" /\ Len(uns[ures.i].data) >= 3) =>
        LET data == uns[ures.i].data
            reads == quartiles_reads(Len(data))
        IN  /\ ReadSet(reads) \subseteq 0..(Len(data) - 1)
            /\ ures.val = [q \in 1..3 |-> QuartileAt(data, reads[q])]

\* quartiles() of four samples, not all equal: k = 1 and k - 1 = 0 is read
C14_Witness ==
    /\ ures.op = "quartiles"
    /\ Len(uns[ures.i].data) = 4
    /\ ures.val # <<>>
    /\ ures.val[1] # ures.val[3]

(***************************************************************************)
(* C8: modes() returns, ascending and each once, the distinct values whose *)
(* occurrence count is the maximum, provided the maximum is above 1; it is *)
(* empty on empty input and when no value repeats.                         *)
(***************************************************************************)
C8_Modes ==
    ures.op = "modes" =>
        ures.val = IF BagMax(UBag) > 1 THEN AscendingSet(Top(UBag)) ELSE <<>>

\* modes() answered with two tied values, a third value occurring less often
C8_Witness ==
    /\ ures.op = "modes"
    /\ Len(ures.val) = 2
    /\ Cardinality(Support(UBag)) = 3

(***************************************************************************)
(* C9: median() is absent on empty input; for n >= 1 it is x[(n-1)/2] of   *)
(* the sorted samples when n is odd and (x[n/2 - 1] + x[n/2]) / 2 when n   *)
(* is even.                                                                *)
(***************************************************************************)
C9_Median ==
    ures.op = "median" =>
        LET x == USorted
            n == Len(x)
        IN  IF n = 0 THEN ures.val = <<>>
            ELSE IF n % 2 = 1 THEN ures.val = <<F64(x[(n - 1) \div 2 + 1], 1)>>
            ELSE ures.val = <<Mid(x[(n \div 2 - 1) + 1], x[n \div 2 + 1])>>

\* median() of an even number of samples whose middle two differ by one
C9_Witness ==
    /\ ures.op = "median"
    /\ BagSize(UBag) % 2 = 0
    /\ Len(ures.val) = 1
    /\ ures.val[1][2] = 2

(***************************************************************************)
(* C4: after A.merge(B), with either instance as the receiver and each     *)
(* built by any add/extend/merge and possibly queried before, cardinality, *)
(* mode, modes, median and quartiles answer as they do on one Unsorted     *)
(* collected from the two sample sequences concatenated in either order,   *)
(* or from the same samples in ascending or descending order.              *)
(***************************************************************************)
\* what the five queries return on the instance u
Answers(u) ==
    [cardinality |-> Unsorted_cardinality(u).ret,
     mode |-> Unsorted_mode(u).ret,
     modes |-> Unsorted_modes(u).ret,
     median |-> Unsorted_median(u).ret,
     quartiles |-> Unsorted_quartiles(u).ret]

C4_MergeAsUnion ==
    ures.op = "merge" =>
        LET a == ures.val[1].data
            b == ures.val[2].data
            merged == Answers(uns[ures.i])
        IN  /\ merged = Answers(Unsorted_from_iter(a \o b))
            /\ merged = Answers(Unsorted_from_iter(b \o a))
            /\ merged = Answers(Unsorted_from_iter(USorted))
            /\ merged = Answers(Unsorted_from_iter(Reverse(USorted)))
            /\ Unsorted_len(uns[ures.i]) = Len(a) + Len(b)

\* a merge of two instances of two or more samples each, the receiver's in
\* sorted order as a query leaves them, the concatenation not in order
C4_Witness ==
    /\ ures.op = "merge"
    /\ Len(ures.val[1].data) >= 2
    /\ Len(ures.val[2].data) >= 2
    /\ ures.val[1].data = sort_unstable(ures.val[1].data)
    /\ uns[ures.i].data # sort_unstable(uns[ures.i].data)
    /\ Answers(uns[ures.i]).mode # <<>>

(***************************************************************************)
(* C13 (the claim as stated; the code violates it):                        *)
(* the sorted flag of an Unsorted is false right after every add, extend   *)
(* or merge and true right after every query that sorts (median,           *)
(* quartiles, mode, modes, cardinality), so that the sort() of a second    *)
(* query with no mutation in between skips sort_unstable.                  *)
(***************************************************************************)
C13_DirtyThenClean ==
    /\ ures.op \in {"add", "extend", "merge"} => uns[ures.i].sorted = FALSE
    /\ ures.op \in {"median", "quartiles", "mode", "modes", "cardinality"} =>
        /\ uns[ures.i].sorted = TRUE
        /\ Unsorted_sort(uns[ures.i]) = uns[ures.i]

(***************************************************************************)
(* C15: median, quartiles, mode, modes and cardinality leave len() and the *)
(* multiset of the stored samples as they were (cardinality de-duplicates  *)
(* a copy), so after any interleaving of queries with add/extend/merge a   *)
(* query returns what it returns on a new instance holding the same        *)
(* samples, and what the same query returns when repeated at once.         *)
(***************************************************************************)
C15_QueriesKeepSamples ==
    /\ \A i \in UInst :
        /\ BagOfSeq(Values, uns[i].data) = usamples[i]
        /\ Unsorted_len(uns[i]) = BagSize(usamples[i])
    /\ ures.op \in {"median", "quartiles", "mode", "modes", "cardinality"} =>
        /\ ures.val = Answers(Unsorted_from_iter(USorted))[ures.op]
        /\ ures.val = Answers(Unsorted_from_iter(Reverse(USorted)))[ures.op]
        /\ ures.val = Answers(uns[ures.i])[ures.op]
        /\ \A op \in {"median", "quartiles", "mode", "modes", "cardinality"} :
            Answers(uns[ures.i])[op] = Answers(Unsorted_from_iter(USorted))[op]

\* cardinality() of four or more samples, some of them equal, the other
\* instance holding samples too
C15_Witness ==
    /\ ures.op = "cardinality"
    /\ Len(uns[ures.i].data) >= 4
    /\ ures.val[1] < Len(uns[ures.i].data)
    /\ ures.val[1] >= 2
    /\ \E j \in UInst : j # ures.i /\ uns[j].data # <<>>

(***************************************************************************)
(* C3: Frequencies.merge adds counts key-wise over the union of the keys,  *)
(* so a table merged from the tables of any shards, in any order and       *)
(* grouping and with either operand as the receiver, counts every value as *)
(* one table built by add over all the samples does.                       *)
(***************************************************************************)
C3_MergeAddsCounts ==
    /\ \A i \in FInst :
        /\ \A v \in Values : Frequencies_count(freq[i], v) = fsamples[i][v]
        /\ freq[i] = Frequencies_from_iter(Ascending(fsamples[i]))
        /\ freq[i] = Frequencies_from_iter(Reverse(Ascending(fsamples[i])))
    /\ fres.op = "merge" =>
        LET a == fres.val[1]
            b == fres.val[2]
        IN  /\ DOMAIN freq[fres.i] = DOMAIN a \cup DOMAIN b
            /\ \A k \in Values :
                Frequencies_count(freq[fres.i], k)
                    = Frequencies_count(a, k) + Frequencies_count(b, k)

\* a merge of two tables that share a key and hold a key each of their own
C3_Witness ==
    /\ fres.op = "merge"
    /\ DOMAIN fres.val[1] \cap DOMAIN fres.val[2] # {}
    /\ DOMAIN fres.val[1] \ DOMAIN fres.val[2] # {}
    /\ DOMAIN fres.val[2] \ DOMAIN fres.val[1] # {}

(***************************************************************************)
(* C10: Frequencies.mode() returns nothing when the table is empty or two  *)
(* or more values tie for the highest count, and otherwise the one value   *)
(* of the strictly highest count (the one key of a one-key table).         *)
(***************************************************************************)
C10_FrequenciesMode ==
    fres.op = "mode" =>
        LET b == fsamples[fres.i]
        IN  fres.val = IF Cardinality(Top(b)) = 1 THEN <<CHOOSE x \in Top(b) : TRUE>>
                       ELSE <<>>

\* mode() of a table of three keys, one of them strictly the most frequent
C10_Witness ==
    /\ fres.op = "mode"
    /\ Frequencies_len(freq[fres.i]) = 3
    /\ fres.val # <<>>

(***************************************************************************)
(* C11: on every table built by any add/extend/merge, the counts of the    *)
(* values unique_values() yields add up to the number of samples added     *)
(* over all the tables merged into it, which is the total_count that       *)
(* most_frequent and least_frequent return; cardinality() is the number of *)
(* distinct values added; count(v) is 0 for a value never added and at     *)
(* least 1 for every stored key.                                           *)
(***************************************************************************)
\* the sum of count(v) over the values of a sequence
RECURSIVE SumCounts(_, _)
SumCounts(f, vals) ==
    IF vals = <<>> THEN 0
    ELSE Frequencies_count(f, Head(vals)) + SumCounts(f, Tail(vals))

C11_CountsAddUp ==
    /\ \A i \in FInst :
        /\ \A v \in Values :
            (fsamples[i][v] = 0) => (Frequencies_count(freq[i], v) = 0)
        /\ \A k \in DOMAIN freq[i] : Frequencies_count(freq[i], k) >= 1
        /\ Frequencies_cardinality(freq[i]) = Cardinality(Support(fsamples[i]))
        /\ Frequencies_is_empty(freq[i]) <=> (BagSize(fsamples[i]) = 0)
    /\ fres.op = "unique_values" =>
        /\ Len(fres.val) = Cardinality(Support(fsamples[fres.i]))
        /\ {fres.val[n] : n \in 1..Len(fres.val)} = Support(fsamples[fres.i])
        /\ SumCounts(freq[fres.i], fres.val) = BagSize(fsamples[fres.i])
    /\ fres.op \in {"most_frequent", "least_frequent"} =>
        /\ fres.val.total_count = BagSize(fsamples[fres.i])
        /\ fres.val.total_count = SumCounts(freq[fres.i], AscendingSet(DOMAIN freq[fres.i]))
    /\ fres.op = "cardinality" =>
        fres.val = Cardinality(Support(fsamples[fres.i]))
    /\ fres.op = "count" =>
        fres.val[2] = fsamples[fres.i][fres.val[1]]

\* least_frequent() of a table of three keys and four samples
C11_Witness ==
    /\ fres.op = "least_frequent"
    /\ Len(fres.val.counts) = 3
    /\ fres.val.total_count = 4

(***************************************************************************)
(* C12: par_frequent(least) returns every distinct value once with its     *)
(* count, by count descending (least false) or ascending (least true) and, *)
(* among equal counts, by ascending value in both directions: the one list *)
(* the multiset of samples determines, whatever the order of insertion, of *)
(* merging and of the hash map's iteration.                                *)
(***************************************************************************)
\* the entries of the bag b over the values S in par_frequent's order
RECURSIVE Ranked(_, _, _)
Ranked(b, S, least) ==
    IF S = {} THEN <<>>
    ELSE LET x == CHOOSE y \in S : \A z \in S \ {y} :
                      \/ IF least THEN b[y] < b[z] ELSE b[y] > b[z]
                      \/ b[y] = b[z] /\ y < z
         IN  <<<<x, b[x]>>>> \o Ranked(b, S \ {x}, least)

C12_ParFrequentIsDetermined ==
    fres.op \in {"par_frequent(true)", "par_frequent(false)"} =>
        LET b == fsamples[fres.i]
        IN  /\ fres.val.counts = Ranked(b, Support(b), fres.op = "par_frequent(true)")
            /\ fres.val.total_count = BagSize(b)

\* par_frequent(false) of three keys, the two less frequent of equal count
C12_Witness ==
    /\ fres.op = "par_frequent(false)"
    /\ Len(fres.val.counts) = 3
    /\ fres.val.counts[1][2] > fres.val.counts[2][2]
    /\ fres.val.counts[2][2] = fres.val.counts[3][2]

(***************************************************************************)
(* Mean and variance stated on the multiset of samples, for reference.     *)
(***************************************************************************)
RECURSIVE BagSum(_)
BagSum(b) ==
    IF DOMAIN b = {} THEN 0
    ELSE LET x == CHOOSE y \in DOMAIN b : TRUE
         IN  b[x] * x + BagSum([y \in DOMAIN b \ {x} |-> b[y]])

RECURSIVE BagSumSq(_)
BagSumSq(b) ==
    IF DOMAIN b = {} THEN 0
    ELSE LET x == CHOOSE y \in DOMAIN b : TRUE
         IN  b[x] * x * x + BagSumSq([y \in DOMAIN b \ {x} |-> b[y]])

\* size n, mean sum/n and population variance (n * sumsq - sum^2) / n^2
Population(b) ==
    LET n == BagSize(b) IN
    [size |-> n,
     mean |-> F64(BagSum(b), n),
     variance |-> F64(n * BagSumSq(b) - BagSum(b) * BagSum(b), n * n)]

(***************************************************************************)
(* C5 (the claim as stated; the code violates it):                         *)
(* Variance.merge with a zero-size operand, receiver or argument or both,  *)
(* leaves the (size, mean, variance) of the other operand, and neither the *)
(* mean nor the variance is NaN.                                           *)
(***************************************************************************)
C5_MergeEmptyIsIdentity ==
    (vres.op = "merge" /\ (vres.self.size = 0 \/ vres.other.size = 0)) =>
        /\ var[vres.i] = IF vres.self.size = 0 THEN vres.other ELSE vres.self
        /\ ~is_nan(var[vres.i].mean)
        /\ ~is_nan(var[vres.i].variance)

(***************************************************************************)
(* C6: in exact arithmetic, an accumulator merged from the accumulators of *)
(* shards, each built by add, in any order and grouping, has the size,     *)
(* mean and variance of one accumulator built by add over all the samples: *)
(* the population mean and the population variance.  It holds of every     *)
(* non-empty accumulator that no merge of two empty ones went into, so of  *)
(* every merge of non-empty shards.                                        *)
(***************************************************************************)
C6_MergeIsExact ==
    \A i \in VInst :
        (~vtaint[i] /\ var[i].size > 0) =>
            /\ var[i] = Population(vsamples[i])
            /\ var[i] = Variance_from_slice(Ascending(vsamples[i]))
            /\ var[i] = Variance_from_slice(Reverse(Ascending(vsamples[i])))

\* a merge of a one-sample accumulator with a two-sample one of another mean
\* and a variance above 0
C6_Witness ==
    /\ vres.op = "merge"
    /\ ~vtaint[vres.i]
    /\ vres.self.size = 1
    /\ vres.other.size = 2
    /\ vres.other.variance # to_f64(0)
    /\ vres.self.mean # vres.other.mean
    /\ var[vres.i].size = 3

====
